---- MODULE Spec2Model ----
(***************************************************************************)
(* The connection lifecycle of the Polycom websocket front end             *)
(* (nettools/HTTPServer/HTTPServer.go): wsConnect, the inbound pump        *)
(* Reader, the outbound pump Writer, and the client directory (package     *)
(* Hub) they register with.                                                *)
(*                                                                         *)
(* One connection is one index c of Conns: the index stands for the        *)
(* *Hub.Client pointer and for the websocket handle httpconn of that       *)
(* request.  Package Hub is not part of the sources at hand; the           *)
(* directory operations (Exists, Admit, Remove), the role resolution and   *)
(* the producers of the Send queue / Quit signal follow the written        *)
(* specification of the directory.                                         *)
(*                                                                         *)
(* Time: durations are in seconds.  Computation steps take no time; the    *)
(* clock advances (Tick) in steps of pongWait - pingPeriod only when every *)
(* thread is blocked on its channel select, on ReadMessage or on an        *)
(* external event.  A write ends (done or failed, writeWait = 5s at most)  *)
(* within one clock step.                                                  *)
(*                                                                         *)
(* Config.Load (Config/config.go), which builds the configuration the      *)
(* ceilings of the directory come from, is modelled statement by           *)
(* statement; what the ini library makes of a settings source is an input. *)
(***************************************************************************)
EXTENDS Integers, Sequences, FiniteSets, TLC

(* ------------------------------ bounds -------------------------------- *)
\* number of websocket requests that arrive
NConn == 2
\* messages ever enqueued on one Send queue
MaxEnq == 2
\* frames the peer of one connection sends
MaxFrames == 2

(* ------------------------- program constants -------------------------- *)
pongWait == 60
pingPeriod == (pongWait * 9) \div 10
\* capacity of the Send channel: make(chan []byte, 256)
SendCap == 256

\* c.Conn.SetReadLimit(maxMessageSize)
maxMessageSize == 512

TickStep == pongWait - pingPeriod

\* the bytes of a frame: a letter, a blank, carriage return, line feed
Newline == <<"CR", "LF">>
Space == <<"SP">>
WhiteSpace == {"SP", "CR", "LF"}

\* payloads a peer sends that fit the read limit
Texts == {<<"a">>, <<"SP", "a", "CR", "LF", "b", "LF">>}

\* a frame on the wire: the number of payload bytes and, for a frame that
\* fits the read limit, the payload (ReadMessage hands out no payload of a
\* longer frame)
Frames ==
    {[size |-> Len(t), text |-> t] : t \in Texts}
        \cup {[size |-> maxMessageSize + 1, text |-> <<>>]}

RECURSIVE SeqsUpTo(_, _)
\* the sequences over S of length n at most
SeqsUpTo(S, n) ==
    IF n = 0 THEN {<<>>}
    ELSE LET shorter == SeqsUpTo(S, n - 1)
         IN shorter \cup {Append(q, x) : q \in shorter, x \in S}

Conns == 1 .. NConn
\* values of the Sec-Websocket-Key header
Names == {"k1", "k2"}
\* the roles with a configured ceiling: MaxUsersConns, MaxMonitorsConns,
\* MaxServersConns, MaxIncommingConns
CappedRoles == {"User", "Monitor", "Server", "Incoming"}

\* the ConnectionLimit defaults Load starts from
DefaultLimits ==
    [r \in CappedRoles |->
        CASE r = "User" -> 100
          [] r = "Monitor" -> 3
          [] r = "Server" -> 5
          [] r = "Incoming" -> 50]

\* ConnectionLimit sections that cfg.MapTo(conf) takes from a settings source
\* in place of the defaults: one small ceiling for every role
ConfiguredLimits == {[r \in CappedRoles |-> n] : n \in {1, 2}}

VARIABLES
    pc,         \* position of each request inside wsConnect
    name,       \* identity taken from the handshake
    role,       \* CType of the Client record ("none": no record built)
    admit,      \* the directory's answer to Register ("none" before)
    dir,        \* the directory: the set of registered records
    limits,     \* the ConnectionLimit section of the configuration
    rd,         \* Reader: "none", "reading", "exited"
    rdWhy,      \* why the Reader left its loop
    wr,         \* Writer: "none", "select", "writing", "exited"
    wrWhy,      \* which return of the Writer was taken
    cur,        \* the frame the Writer is writing
    open,       \* the transport handle is open
    closes,     \* number of Close calls on the handle
    send,       \* the Send channel's buffer
    sendClosed, \* the Send channel has been closed
    quit,       \* the Quit signal has fired
    rdLeft,     \* seconds until the read deadline
    pingLeft,   \* seconds until the ticker's next tick
    tickReady,  \* a tick waits in ticker.C
    pongDue,    \* the peer's pong to the last ping has arrived
    acking,     \* the peer still acknowledges pings
    sinceAck,   \* seconds since the last pong (or since the Reader started)
    acked,      \* history: the pong handler has run
    enq,        \* history: every message enqueued on Send, in order
    written,    \* history: every text message written, in order
    regs,       \* history: sends on Hub.Register
    unregs,     \* history: sends on Hub.Unregister
    nReading,   \* threads inside ReadMessage on the handle
    nWriting,   \* threads inside WriteMessage on the handle
    handlers,   \* running CallToAction goroutines
    inbox,      \* the frames the peer has yet to send, in order
    arrived,    \* history: the frames ReadMessage returned, in order
    dispatched, \* history: the messages handed to CallToAction, in order
    load        \* Config.Load: its position, its settings source, its err

wsVars == <<pc, name, role, admit, regs, unregs>>
dirVars == <<dir, limits, load>>
rdVars == <<rd, rdWhy, nReading, handlers, inbox, arrived, dispatched>>
wrVars == <<wr, wrWhy, cur, nWriting, written>>
connVars == <<open, closes>>
qVars == <<send, sendClosed, quit, enq>>
timeVars == <<rdLeft, pingLeft, tickReady, pongDue, acking, sinceAck, acked>>
vars == <<wsVars, dirVars, rdVars, wrVars, connVars, qVars, timeVars>>

NoFrame == [kind |-> "none", msg |-> 0]

(* ----------------------------- directory ------------------------------ *)
\* Hub.UserExists(name, ctype)
UserExists(n, r) == \E d \in dir : name[d] = n /\ role[d] = r

Count(r) == Cardinality({d \in dir : role[d] = r})

\* Admit without the identity check
Admissible_NoCollision(n, r) ==
    r \in CappedRoles => Count(r) < limits[r]

\* Admit without the capacity check
Admissible_NoCeiling(n, r) == ~UserExists(n, r)

\* Admit's decision for identity n under role r
Admissible(n, r) ==
    /\ ~UserExists(n, r)
    /\ r \in CappedRoles => Count(r) < limits[r]

(* ---------------------------- Config.Load ----------------------------- *)
\* the ConnectionLimit sections a settings source may hold
SourceLimits == [CappedRoles -> {1, 2}]

\* a settings source, by what the ini library makes of it: ini.Load reads it
\* or fails, cfg.MapTo(conf) succeeds or fails, and the section
\* KnownBrothers is there or cfg.GetSection fails
Sources ==
    [readable : BOOLEAN, mapOk : BOOLEAN, brothers : BOOLEAN,
     limits : SourceLimits]

\* the fields of ConnectionLimit in the order of the struct
LimitFields == <<"User", "Monitor", "Server", "Incoming">>

\* conf.ConnectionLimit after a MapTo that stopped with an error: the fields
\* before the one it failed on are mapped, the others keep their defaults
PartlyMapped(l) ==
    {[r \in CappedRoles |->
        IF \E i \in 1 .. k : LimitFields[i] = r THEN l[r]
        ELSE DefaultLimits[r]] : k \in 0 .. Len(LimitFields) - 1}

\* Load before its first statement, for the settings source src
LoadCalled(src) ==
    [pc |-> "start", src |-> src, err |-> "nil", servers |-> FALSE]

\* Load after it returned the ceilings l without an error
LoadReturned(l) ==
    [pc |-> "returned",
     src |-> [readable |-> TRUE, mapOk |-> TRUE, brothers |-> TRUE,
              limits |-> l],
     err |-> "nil", servers |-> TRUE]

\* cfg, err := ini.Load(...); if err != nil { return conf, err }
IniLoad ==
    /\ load.pc = "start"
    /\ load' = IF load.src.readable
               THEN [load EXCEPT !.pc = "loaded"]
               ELSE [load EXCEPT !.pc = "returned", !.err = "ini.Load"]
    /\ UNCHANGED <<wsVars, dir, limits, rdVars, wrVars, connVars, qVars,
                   timeVars>>

\* the err that Load holds after cfg.MapTo(conf)
MapToErr(ok) == IF ok THEN "nil" ELSE "MapTo"

\* err = cfg.MapTo(conf)
MapTo ==
    /\ load.pc = "loaded"
    /\ load' = [load EXCEPT !.pc = "mapped",
                            !.err = MapToErr(load.src.mapOk)]
    /\ limits' \in IF load.src.mapOk THEN {load.src.limits}
                   ELSE PartlyMapped(load.src.limits)
    /\ UNCHANGED <<wsVars, dir, rdVars, wrVars, connVars, qVars, timeVars>>

\* the err that Load holds after sec1, err := cfg.GetSection(...): the
\* statement assigns to the err that held the result of MapTo
SectionErr(before, found) == IF found THEN "nil" ELSE "GetSection"

\* sec1, err := cfg.GetSection("KnownBrothers"); if err == nil the servers
\* are taken from the section; return conf, err
GetSection ==
    /\ load.pc = "mapped"
    /\ LET err == SectionErr(load.err, load.src.brothers)
       IN load' = [load EXCEPT !.pc = "returned", !.err = err,
                               !.servers = (err = "nil")]
    /\ UNCHANGED <<wsVars, dir, limits, rdVars, wrVars, connVars, qVars,
                   timeVars>>

(* ------------------------------ the start ----------------------------- *)
\* no request has arrived yet: the requests in A will, from peers that will
\* send one of the frame sequences in I
Arrivals(A, I) ==
    /\ pc = [c \in Conns |-> IF c \in A THEN "idle" ELSE "absent"]
    /\ name = [c \in Conns |-> "none"]
    /\ role = [c \in Conns |-> "none"]
    /\ admit = [c \in Conns |-> "none"]
    /\ dir = {}
    /\ rd = [c \in Conns |-> "none"]
    /\ rdWhy = [c \in Conns |-> "none"]
    /\ wr = [c \in Conns |-> "none"]
    /\ wrWhy = [c \in Conns |-> "none"]
    /\ cur = [c \in Conns |-> NoFrame]
    /\ open = [c \in Conns |-> FALSE]
    /\ closes = [c \in Conns |-> 0]
    /\ send = [c \in Conns |-> <<>>]
    /\ sendClosed = [c \in Conns |-> FALSE]
    /\ quit = [c \in Conns |-> FALSE]
    /\ rdLeft = [c \in Conns |-> 0]
    /\ pingLeft = [c \in Conns |-> 0]
    /\ tickReady = [c \in Conns |-> FALSE]
    /\ pongDue = [c \in Conns |-> FALSE]
    /\ acking = [c \in Conns |-> TRUE]
    /\ sinceAck = [c \in Conns |-> 0]
    /\ acked = [c \in Conns |-> FALSE]
    /\ enq = [c \in Conns |-> <<>>]
    /\ written = [c \in Conns |-> <<>>]
    /\ regs = [c \in Conns |-> 0]
    /\ unregs = [c \in Conns |-> 0]
    /\ nReading = [c \in Conns |-> 0]
    /\ nWriting = [c \in Conns |-> 0]
    /\ handlers = [c \in Conns |-> 0]
    /\ inbox \in {f \in [Conns -> I \cup {<<>>}] :
                    \A c \in Conns : IF c \in A THEN f[c] \in I
                                     ELSE f[c] = <<>>}
    /\ arrived = [c \in Conns |-> <<>>]
    /\ dispatched = [c \in Conns |-> <<>>]

\* the state before any request has arrived, for the requests in A, a
\* configuration out of L that Load has returned, and peers that will send
\* one of the frame sequences in I
Start(A, L, I) ==
    /\ Arrivals(A, I)
    /\ limits \in L
    /\ load = LoadReturned(limits)

(* ----------------------------- wsConnect ------------------------------ *)
\* m.Upgrader.Upgrade and the handshake key: on failure wsConnect returns
Upgrade(c) ==
    /\ pc[c] = "idle"
    /\ \E ok \in BOOLEAN, n \in Names :
        IF ok
        THEN /\ pc' = [pc EXCEPT ![c] = "check"]
             /\ name' = [name EXCEPT ![c] = n]
             /\ open' = [open EXCEPT ![c] = TRUE]
        ELSE /\ pc' = [pc EXCEPT ![c] = "failed"]
             /\ UNCHANGED <<name, open>>
    /\ UNCHANGED <<role, admit, regs, unregs, dirVars, rdVars, wrVars, closes,
                   qVars, timeVars>>

\* the handle after the duplicate check refuses the request: wsConnect
\* returns and leaves httpconn as it is
RefusedHandle(c) == open[c]

\* if m.Hub.UserExists(name, Hub.ClientUser) { ...; return }, else the Client
\* record is built with CType ClientUndefined, an empty Send and a fresh Quit
CheckUser(c) ==
    /\ pc[c] = "check"
    /\ IF UserExists(name[c], "User")
       THEN /\ pc' = [pc EXCEPT ![c] = "refused"]
            /\ open' = [open EXCEPT ![c] = RefusedHandle(c)]
            /\ UNCHANGED role
       ELSE /\ pc' = [pc EXCEPT ![c] = "register"]
            /\ role' = [role EXCEPT ![c] = "Undefined"]
            /\ UNCHANGED open
    /\ UNCHANGED <<name, admit, regs, unregs, dirVars, rdVars, wrVars, closes,
                   qVars, timeVars>>

\* the position of wsConnect after m.Hub.Register <- client: the send has
\* no answer, the next statement is go m.Writer(client)
AfterRegister(c) == "spawn"

\* m.Hub.Register <- client, received by the directory, which admits or
\* rejects the record
Register(c) ==
    /\ pc[c] = "register"
    /\ regs' = [regs EXCEPT ![c] = @ + 1]
    /\ IF Admissible(name[c], role[c])
       THEN /\ dir' = dir \cup {c}
            /\ admit' = [admit EXCEPT ![c] = "Accepted"]
       ELSE /\ dir' = dir
            /\ admit' = [admit EXCEPT ![c] = "Rejected"]
    /\ pc' = [pc EXCEPT ![c] = AfterRegister(c)]
    /\ UNCHANGED <<name, role, unregs, limits, load, rdVars, wrVars,
                   connVars, qVars, timeVars>>

\* a ticker of the period of the read deadline
TickerPeriod_PongWait == pongWait

\* the period of the Writer's ticker: time.NewTicker(pingPeriod)
TickerPeriod == pingPeriod

\* go m.Writer(client): the Writer starts with ticker := NewTicker(pingPeriod)
SpawnWriter(c) ==
    /\ pc[c] = "spawn"
    /\ pc' = [pc EXCEPT ![c] = "reader"]
    /\ wr' = [wr EXCEPT ![c] = "select"]
    /\ pingLeft' = [pingLeft EXCEPT ![c] = TickerPeriod]
    /\ UNCHANGED <<name, role, admit, regs, unregs, dirVars, rdVars, wrWhy,
                   cur, nWriting, written, connVars, qVars, rdLeft, tickReady,
                   pongDue, acking, sinceAck, acked>>

\* Unregister sent again after wsConnect is through
UnregisterReady_Twice(c) == pc[c] \in {"unregister", "done"}

\* Unregister sent without waiting for m.Reader(client) to return
UnregisterReady_Early(c) ==
    \/ pc[c] = "unregister"
    \/ pc[c] = "reader" /\ rd[c] = "reading"

\* m.Hub.Unregister <- client is the statement after m.Reader(client)
UnregisterReady(c) == pc[c] = "unregister"

\* Remove that takes out every record of the sender's identity
Unregister_ByName(c) ==
    /\ UnregisterReady(c)
    /\ unregs' = [unregs EXCEPT ![c] = @ + 1]
    /\ dir' = {d \in dir : name[d] # name[c]}
    /\ pc' = [pc EXCEPT ![c] = "done"]
    /\ UNCHANGED <<name, role, admit, regs, limits, load, rdVars, wrVars,
                   connVars, qVars, timeVars>>

\* m.Hub.Unregister <- client, received by the directory: Remove
Unregister(c) ==
    /\ UnregisterReady(c)
    /\ unregs' = [unregs EXCEPT ![c] = @ + 1]
    /\ dir' = dir \ {c}
    /\ pc' = [pc EXCEPT ![c] = "done"]
    /\ UNCHANGED <<name, role, admit, regs, limits, load, rdVars, wrVars,
                   connVars, qVars, timeVars>>

(* ------------------------------- Reader ------------------------------- *)
\* the value SetReadDeadline gets: time.Now().Add(pongWait), as seconds left
ReadDeadline == pongWait

\* conn.Close(), called by the deferred functions of Reader and of Writer
Close(c) ==
    /\ closes' = [closes EXCEPT ![c] = @ + 1]
    /\ open' = [open EXCEPT ![c] = FALSE]

\* Reader's entry: SetReadLimit, SetReadDeadline, SetPongHandler, then the
\* first ReadMessage
ReaderEnter(c) ==
    /\ pc[c] = "reader"
    /\ rd[c] = "none"
    /\ rd' = [rd EXCEPT ![c] = "reading"]
    /\ nReading' = [nReading EXCEPT ![c] = @ + 1]
    /\ rdLeft' = [rdLeft EXCEPT ![c] = ReadDeadline]
    /\ sinceAck' = [sinceAck EXCEPT ![c] = 0]
    /\ UNCHANGED <<wsVars, dirVars, rdWhy, handlers, inbox, arrived,
                   dispatched, wrVars, connVars, qVars, pingLeft, tickReady,
                   pongDue, acking, acked>>

\* a pong handler that leaves the read deadline as it is
PongHandler_NoReset(c) ==
    /\ rd[c] = "reading"
    /\ open[c]
    /\ pongDue[c]
    /\ pongDue' = [pongDue EXCEPT ![c] = FALSE]
    /\ acked' = [acked EXCEPT ![c] = TRUE]
    /\ UNCHANGED <<wsVars, dirVars, rdVars, wrVars, connVars, qVars, rdLeft,
                   sinceAck, pingLeft, tickReady, acking>>

\* the pong handler, run inside ReadMessage when a pong frame arrives
PongHandler(c) ==
    /\ rd[c] = "reading"
    /\ open[c]
    /\ pongDue[c]
    /\ pongDue' = [pongDue EXCEPT ![c] = FALSE]
    /\ rdLeft' = [rdLeft EXCEPT ![c] = ReadDeadline]
    /\ sinceAck' = [sinceAck EXCEPT ![c] = 0]
    /\ acked' = [acked EXCEPT ![c] = TRUE]
    /\ UNCHANGED <<wsVars, dirVars, rdVars, wrVars, connVars, qVars,
                   pingLeft, tickReady, acking>>

\* the frame is longer than the read limit: ReadMessage returns an error
Oversized(f) == f.size > maxMessageSize

RECURSIVE ReplaceNewline(_)
\* bytes.Replace(message, Newline, Space, -1)
ReplaceNewline(m) ==
    IF Len(m) < 2 THEN m
    ELSE IF SubSeq(m, 1, 2) = Newline
         THEN Space \o ReplaceNewline(SubSeq(m, 3, Len(m)))
         ELSE <<Head(m)>> \o ReplaceNewline(Tail(m))

RECURSIVE TrimLeft(_)
TrimLeft(m) ==
    IF m # <<>> /\ Head(m) \in WhiteSpace THEN TrimLeft(Tail(m)) ELSE m

RECURSIVE TrimRight(_)
TrimRight(m) ==
    IF m # <<>> /\ m[Len(m)] \in WhiteSpace
    THEN TrimRight(SubSeq(m, 1, Len(m) - 1))
    ELSE m

\* bytes.TrimSpace
TrimSpace(m) == TrimRight(TrimLeft(m))

\* message = bytes.TrimSpace(bytes.Replace(message, Newline, Space, -1))
Normalize(m) == TrimSpace(ReplaceNewline(m))

\* c.CallToAction(c, message) called without go: the next ReadMessage waits
\* until the handler has returned
ReaderRecv_Sync(c) ==
    /\ rd[c] = "reading"
    /\ open[c]
    /\ handlers[c] = 0
    /\ inbox[c] # <<>>
    /\ ~Oversized(Head(inbox[c]))
    /\ inbox' = [inbox EXCEPT ![c] = Tail(@)]
    /\ arrived' = [arrived EXCEPT ![c] = Append(@, Head(inbox[c]))]
    /\ dispatched' = [dispatched EXCEPT
                        ![c] = Append(@, Normalize(Head(inbox[c]).text))]
    /\ handlers' = [handlers EXCEPT ![c] = @ + 1]
    /\ UNCHANGED <<wsVars, dirVars, rd, rdWhy, nReading, wrVars, connVars,
                   qVars, timeVars>>

\* SetReadDeadline called again for every message read
ReaderRecv_Extends(c) ==
    /\ rd[c] = "reading"
    /\ open[c]
    /\ inbox[c] # <<>>
    /\ ~Oversized(Head(inbox[c]))
    /\ inbox' = [inbox EXCEPT ![c] = Tail(@)]
    /\ arrived' = [arrived EXCEPT ![c] = Append(@, Head(inbox[c]))]
    /\ dispatched' = [dispatched EXCEPT
                        ![c] = Append(@, Normalize(Head(inbox[c]).text))]
    /\ handlers' = [handlers EXCEPT ![c] = @ + 1]
    /\ rdLeft' = [rdLeft EXCEPT ![c] = ReadDeadline]
    /\ UNCHANGED <<wsVars, dirVars, rd, rdWhy, nReading, wrVars, connVars,
                   qVars, pingLeft, tickReady, pongDue, acking, sinceAck,
                   acked>>

\* ReadMessage returns the peer's next frame, which fits the read limit: it
\* is normalised and handed to go c.CallToAction(c, message); the loop goes
\* on with the next ReadMessage
ReaderRecv(c) ==
    /\ rd[c] = "reading"
    /\ open[c]
    /\ inbox[c] # <<>>
    /\ ~Oversized(Head(inbox[c]))
    /\ inbox' = [inbox EXCEPT ![c] = Tail(@)]
    /\ arrived' = [arrived EXCEPT ![c] = Append(@, Head(inbox[c]))]
    /\ dispatched' = [dispatched EXCEPT
                        ![c] = Append(@, Normalize(Head(inbox[c]).text))]
    /\ handlers' = [handlers EXCEPT ![c] = @ + 1]
    /\ UNCHANGED <<wsVars, dirVars, rd, rdWhy, nReading, wrVars, connVars,
                   qVars, timeVars>>

\* the errors ReadMessage can return in the current state
ReadFailures(c) ==
    IF ~open[c]
    THEN {"closed"}
    ELSE {"error"}
         \cup (IF inbox[c] # <<>> /\ Oversized(Head(inbox[c]))
               THEN {"oversize"} ELSE {})
         \cup (IF rdLeft[c] = 0 THEN {"deadline"} ELSE {})

\* the error logged and the loop continued with the next ReadMessage
ReaderFail_Retry(c) ==
    /\ rd[c] = "reading"
    /\ rdWhy[c] = "none"
    /\ \E why \in ReadFailures(c) :
        /\ rdWhy' = [rdWhy EXCEPT ![c] = why]
        /\ inbox' = IF why = "oversize" THEN [inbox EXCEPT ![c] = Tail(@)]
                    ELSE inbox
    /\ UNCHANGED <<wsVars, dirVars, rd, nReading, handlers, arrived,
                   dispatched, wrVars, connVars, qVars, timeVars>>

\* ReadMessage returns an error: break, the deferred Close, and wsConnect
\* goes on after m.Reader(client).  The frame that was too long is gone
\* with the error.
ReaderFail(c) ==
    /\ rd[c] = "reading"
    /\ \E why \in ReadFailures(c) :
        /\ rdWhy' = [rdWhy EXCEPT ![c] = why]
        /\ inbox' = IF why = "oversize" THEN [inbox EXCEPT ![c] = Tail(@)]
                    ELSE inbox
    /\ rd' = [rd EXCEPT ![c] = "exited"]
    /\ nReading' = [nReading EXCEPT ![c] = @ - 1]
    /\ rdLeft' = [rdLeft EXCEPT ![c] = 0]
    /\ Close(c)
    /\ pc' = [pc EXCEPT ![c] = "unregister"]
    /\ UNCHANGED <<name, role, admit, regs, unregs, dirVars, handlers,
                   arrived, dispatched, wrVars, qVars, pingLeft, tickReady,
                   pongDue, acking, sinceAck, acked>>

(* ------------------------------- Writer ------------------------------- *)
\* the write started in a goroutine of its own: the loop does not wait
BeginWrite_Async(c, kind, m) ==
    /\ wr' = wr
    /\ cur' = [cur EXCEPT ![c] = [kind |-> kind, msg |-> m]]
    /\ nWriting' = [nWriting EXCEPT ![c] = @ + 1]

\* m._write(conn, mt, message): SetWriteDeadline, then WriteMessage starts
BeginWrite(c, kind, m) ==
    /\ wr' = [wr EXCEPT ![c] = "writing"]
    /\ cur' = [cur EXCEPT ![c] = [kind |-> kind, msg |-> m]]
    /\ nWriting' = [nWriting EXCEPT ![c] = @ + 1]

\* the newest message taken instead of the oldest
Received_Last(c) == send[c][Len(send[c])]

\* the message the receive case takes from c.Send
Received(c) == Head(send[c])

\* the signal looked at only when a message is there to be received
QuitReady_NeedsMessage(c) == quit[c] /\ send[c] # <<>>

\* select may take the Quit case only when the signal has fired
QuitReady(c) == quit[c]

\* case message, ok := <-c.Send with ok: write it as a text message
WriterSend(c) ==
    /\ wr[c] = "select"
    /\ send[c] # <<>>
    /\ BeginWrite(c, "text", Received(c))
    /\ send' = [send EXCEPT ![c] = Tail(@)]
    /\ UNCHANGED <<wsVars, dirVars, rdVars, wrWhy, written, connVars,
                   sendClosed, quit, enq, timeVars>>

\* the close message written as soon as c.Send is closed, whatever is left
\* in its buffer
WriterClosed_Eager(c) ==
    /\ wr[c] = "select"
    /\ sendClosed[c]
    /\ BeginWrite(c, "close", 0)
    /\ UNCHANGED <<wsVars, dirVars, rdVars, wrWhy, written, connVars, qVars,
                   timeVars>>

\* case message, ok := <-c.Send with !ok: write the close message
WriterClosed(c) ==
    /\ wr[c] = "select"
    /\ send[c] = <<>>
    /\ sendClosed[c]
    /\ BeginWrite(c, "close", 0)
    /\ UNCHANGED <<wsVars, dirVars, rdVars, wrWhy, written, connVars, qVars,
                   timeVars>>

\* case <-ticker.C: write a ping
WriterPing(c) ==
    /\ wr[c] = "select"
    /\ tickReady[c]
    /\ tickReady' = [tickReady EXCEPT ![c] = FALSE]
    /\ BeginWrite(c, "ping", 0)
    /\ UNCHANGED <<wsVars, dirVars, rdVars, wrWhy, written, connVars, qVars,
                   rdLeft, pingLeft, pongDue, acking, sinceAck, acked>>

\* the Writer returns without its deferred function
WriterExit_Leak(c, why) ==
    /\ wr' = [wr EXCEPT ![c] = "exited"]
    /\ wrWhy' = [wrWhy EXCEPT ![c] = why]
    /\ UNCHANGED <<pingLeft, tickReady, connVars>>

\* the Writer returns: the deferred ticker.Stop() and conn.Close()
WriterExit(c, why) ==
    /\ wr' = [wr EXCEPT ![c] = "exited"]
    /\ wrWhy' = [wrWhy EXCEPT ![c] = why]
    /\ pingLeft' = [pingLeft EXCEPT ![c] = 0]
    /\ tickReady' = [tickReady EXCEPT ![c] = FALSE]
    /\ Close(c)

\* case <-c.Quit: return
WriterQuit(c) ==
    /\ wr[c] = "select"
    /\ QuitReady(c)
    /\ WriterExit(c, "quit")
    /\ UNCHANGED <<wsVars, dirVars, rdVars, cur, nWriting, written, qVars,
                   rdLeft, pongDue, acking, sinceAck, acked>>

\* the error of the write noted and the loop continued with the next select
WriteFailed_Continue(c) ==
    /\ wr' = [wr EXCEPT ![c] = "select"]
    /\ wrWhy' = [wrWhy EXCEPT ![c] = "error"]
    /\ UNCHANGED <<pingLeft, tickReady, connVars>>

\* if err := m._write(...); err != nil { return }
WriteFailed(c) == WriterExit(c, "error")

\* a write that can succeed whatever the state of the handle
WriteOutcomes_Any(c) == BOOLEAN

\* what WriteMessage can return: nil (TRUE) or an error (FALSE); on a handle
\* that has been closed it returns an error
WriteOutcomes(c) == IF open[c] THEN BOOLEAN ELSE {FALSE}

\* WriteMessage returns: nil, or an error (always an error on a closed
\* handle).  A text or ping write that failed, and the close message in
\* either case, end the Writer.
WriteDone(c) ==
    /\ wr[c] = "writing"
    /\ nWriting' = [nWriting EXCEPT ![c] = @ - 1]
    /\ cur' = [cur EXCEPT ![c] = NoFrame]
    /\ \E ok \in WriteOutcomes(c) :
        /\ written' = IF ok /\ cur[c].kind = "text"
                      THEN [written EXCEPT ![c] = Append(@, cur[c].msg)]
                      ELSE written
        /\ pongDue' = IF ok /\ cur[c].kind = "ping"
                      THEN [pongDue EXCEPT ![c] = acking[c]]
                      ELSE pongDue
        /\ IF ok /\ cur[c].kind # "close"
           THEN /\ wr' = [wr EXCEPT ![c] = "select"]
                /\ UNCHANGED <<wrWhy, pingLeft, tickReady, connVars>>
           ELSE IF cur[c].kind = "close"
                THEN WriterExit(c, "closed")
                ELSE WriteFailed(c)
    /\ UNCHANGED <<wsVars, dirVars, rdVars, qVars, rdLeft, acking, sinceAck,
                   acked>>

(* ------------------- the hub, the producers, the peer ----------------- *)
\* a Client record exists for the request and its Writer has not returned:
\* from then on nothing receives from c.Send or c.Quit
HasRecord(c) == role[c] # "none" /\ wr[c] # "exited"

\* a registered record is identified: its role goes from Undefined to the
\* resolved role, under the directory's uniqueness and capacity rules
Identify(c) ==
    /\ c \in dir
    /\ role[c] = "Undefined"
    /\ \E r \in CappedRoles :
        /\ Admissible(name[c], r)
        /\ role' = [role EXCEPT ![c] = r]
    /\ UNCHANGED <<pc, name, admit, regs, unregs, dirVars, rdVars, wrVars,
                   connVars, qVars, timeVars>>

\* a producer (the hub, an action handler) puts a message on c.Send; the
\* message is identified by its place in the enqueue order
Enqueue(c) ==
    /\ HasRecord(c)
    /\ ~sendClosed[c]
    /\ Len(send[c]) < SendCap
    /\ Len(enq[c]) < MaxEnq
    /\ send' = [send EXCEPT ![c] = Append(@, Len(enq[c]) + 1)]
    /\ enq' = [enq EXCEPT ![c] = Append(@, Len(enq[c]) + 1)]
    /\ UNCHANGED <<wsVars, dirVars, rdVars, wrVars, connVars, sendClosed,
                   quit, timeVars>>

\* the producer side closes c.Send
CloseSend(c) ==
    /\ HasRecord(c)
    /\ ~sendClosed[c]
    /\ sendClosed' = [sendClosed EXCEPT ![c] = TRUE]
    /\ UNCHANGED <<wsVars, dirVars, rdVars, wrVars, connVars, send, quit,
                   enq, timeVars>>

\* the termination signal c.Quit fires, once
FireQuit(c) ==
    /\ HasRecord(c)
    /\ ~quit[c]
    /\ quit' = [quit EXCEPT ![c] = TRUE]
    /\ UNCHANGED <<wsVars, dirVars, rdVars, wrVars, connVars, send,
                   sendClosed, enq, timeVars>>

\* a CallToAction goroutine returns
HandlerDone(c) ==
    /\ handlers[c] > 0
    /\ handlers' = [handlers EXCEPT ![c] = @ - 1]
    /\ UNCHANGED <<wsVars, dirVars, rd, rdWhy, nReading, inbox, arrived,
                   dispatched, wrVars, connVars, qVars, timeVars>>

\* the peer stops answering pings
PeerStopsAck(c) ==
    /\ rd[c] = "reading"
    /\ acking[c]
    /\ acking' = [acking EXCEPT ![c] = FALSE]
    /\ UNCHANGED <<wsVars, dirVars, rdVars, wrVars, connVars, qVars, rdLeft,
                   pingLeft, tickReady, pongDue, sinceAck, acked>>

(* -------------------------------- time -------------------------------- *)
\* some thread of connection c can take a step without waiting
Busy(c) ==
    \/ pc[c] \in {"check", "register", "spawn", "unregister"}
    \/ pc[c] = "reader" /\ rd[c] = "none"
    \/ rd[c] = "reading" /\ (~open[c] \/ rdLeft[c] = 0 \/ pongDue[c])
    \/ wr[c] = "writing"
    \/ wr[c] = "select" /\ (send[c] # <<>> \/ sendClosed[c] \/ tickReady[c]
                             \/ quit[c])

Min(a, b) == IF a < b THEN a ELSE b

\* TickStep seconds pass
Tick ==
    /\ \A c \in Conns : ~Busy(c)
    /\ \E c \in Conns : rd[c] = "reading" \/ wr[c] = "select"
    /\ rdLeft' = [c \in Conns |->
                    IF rd[c] = "reading" THEN rdLeft[c] - TickStep
                    ELSE rdLeft[c]]
    /\ sinceAck' = [c \in Conns |->
                    IF rd[c] = "reading" \/ (rd[c] = "exited" /\ c \in dir)
                    THEN Min(sinceAck[c] + TickStep, pongWait + TickStep)
                    ELSE sinceAck[c]]
    /\ pingLeft' = [c \in Conns |->
                    IF wr[c] # "select" THEN pingLeft[c]
                    ELSE IF pingLeft[c] <= TickStep THEN TickerPeriod
                    ELSE pingLeft[c] - TickStep]
    /\ tickReady' = [c \in Conns |->
                    IF wr[c] = "select" /\ pingLeft[c] <= TickStep THEN TRUE
                    ELSE tickReady[c]]
    /\ UNCHANGED <<wsVars, dirVars, rdVars, wrVars, connVars, qVars, pongDue,
                   acking, acked>>

(* --------------------------- specification ---------------------------- *)
\* one request: every step of wsConnect, Reader and Writer, the producers
\* of its queue, its peer and the clock
\* the peer sends one frame
OneFrame == {<<f>> : f \in {g \in Frames : g.text = <<"a">>}}

Init == Start({1}, {DefaultLimits}, OneFrame)

Next ==
    \/ \E c \in Conns : Upgrade(c)
    \/ \E c \in Conns : CheckUser(c)
    \/ \E c \in Conns : Register(c)
    \/ \E c \in Conns : SpawnWriter(c)
    \/ \E c \in Conns : ReaderEnter(c)
    \/ \E c \in Conns : PongHandler(c)
    \/ \E c \in Conns : ReaderRecv(c)
    \/ \E c \in Conns : ReaderFail(c)
    \/ \E c \in Conns : Unregister(c)
    \/ \E c \in Conns : WriterSend(c)
    \/ \E c \in Conns : WriterClosed(c)
    \/ \E c \in Conns : WriterPing(c)
    \/ \E c \in Conns : WriterQuit(c)
    \/ \E c \in Conns : WriteDone(c)
    \/ \E c \in Conns : Enqueue(c)
    \/ \E c \in Conns : CloseSend(c)
    \/ \E c \in Conns : FireQuit(c)
    \/ \E c \in Conns : HandlerDone(c)
    \/ \E c \in Conns : PeerStopsAck(c)
    \/ Tick

Spec == Init /\ [][Next]_vars

\* NConn concurrent requests against the directory, within one instant: no
\* message is enqueued, no frame arrives, no timer and no Quit signal fires;
\* a Reader ends by a read error, a Writer stays in its select
DirInit == Start(Conns, ConfiguredLimits, {<<>>})

DirNext ==
    \/ \E c \in Conns : Upgrade(c)
    \/ \E c \in Conns : CheckUser(c)
    \/ \E c \in Conns : Register(c)
    \/ \E c \in Conns : SpawnWriter(c)
    \/ \E c \in Conns : ReaderEnter(c)
    \/ \E c \in Conns : ReaderFail(c)
    \/ \E c \in Conns : Unregister(c)
    \/ \E c \in Conns : Identify(c)

DirSpec == DirInit /\ [][DirNext]_vars

\* one request seen from its Reader: the peer sends up to MaxFrames frames,
\* some of them longer than the read limit; nothing is enqueued on Send and
\* no Quit fires, the Writer writes pings.  The scheduler runs wsConnect on
\* after the Reader has returned.
ReadInit == Start({1}, {DefaultLimits}, SeqsUpTo(Frames, MaxFrames))

ReadNext ==
    \/ \E c \in Conns : Upgrade(c)
    \/ \E c \in Conns : CheckUser(c)
    \/ \E c \in Conns : Register(c)
    \/ \E c \in Conns : SpawnWriter(c)
    \/ \E c \in Conns : ReaderEnter(c)
    \/ \E c \in Conns : PongHandler(c)
    \/ \E c \in Conns : ReaderRecv(c)
    \/ \E c \in Conns : ReaderFail(c)
    \/ \E c \in Conns : Unregister(c)
    \/ \E c \in Conns : WriterPing(c)
    \/ \E c \in Conns : WriteDone(c)
    \/ \E c \in Conns : HandlerDone(c)
    \/ \E c \in Conns : PeerStopsAck(c)
    \/ Tick

ReadSpec ==
    /\ ReadInit
    /\ [][ReadNext]_vars
    /\ \A c \in Conns : WF_vars(Unregister(c))

\* NConn requests with both pumps and the clock: the peers send no frames,
\* nothing is enqueued on Send and no Quit fires; a connection ends by a
\* failed upgrade, a rejected registration, a read error, the read deadline
\* or a failed ping
PairInit == Start(Conns, {DefaultLimits}, {<<>>})

PairNext ==
    \/ \E c \in Conns : Upgrade(c)
    \/ \E c \in Conns : CheckUser(c)
    \/ \E c \in Conns : Register(c)
    \/ \E c \in Conns : SpawnWriter(c)
    \/ \E c \in Conns : ReaderEnter(c)
    \/ \E c \in Conns : PongHandler(c)
    \/ \E c \in Conns : ReaderFail(c)
    \/ \E c \in Conns : Unregister(c)
    \/ \E c \in Conns : WriterPing(c)
    \/ \E c \in Conns : WriteDone(c)
    \/ \E c \in Conns : PeerStopsAck(c)
    \/ Tick

PairSpec == PairInit /\ [][PairNext]_vars

\* Config.Load alone, called once for every settings source: conf starts
\* from the built-in defaults, no request is served
LoadInit ==
    /\ Arrivals({}, {<<>>})
    /\ limits = DefaultLimits
    /\ load \in {LoadCalled(src) : src \in Sources}

LoadNext ==
    \/ IniLoad
    \/ MapTo
    \/ GetSection

LoadSpec == LoadInit /\ [][LoadNext]_vars

\* a step of the Writer goroutine
WriterStep(c) ==
    \/ WriterSend(c)
    \/ WriterClosed(c)
    \/ WriterPing(c)
    \/ WriterQuit(c)
    \/ WriteDone(c)

\* Spec with a fair scheduler and a running clock: wsConnect goes on after
\* the Reader, a Writer that has a ready case or a write that returned goes
\* on, and time passes when every thread waits
LiveSpec ==
    /\ Spec
    /\ \A c \in Conns : WF_vars(Unregister(c))
    /\ \A c \in Conns : WF_vars(WriterStep(c))
    /\ WF_vars(Tick)

\* the scheduler runs wsConnect on, and the directory's loop receives from
\* Hub.Unregister
FairSpec == Spec /\ \A c \in Conns : WF_vars(Unregister(c))

(* ------------------------------ properties ---------------------------- *)
Running(c) == wr[c] \in {"select", "writing"}

\* C1: no two records registered at the same time share the same
\* (identity, role), also when two requests with the same identity pass the
\* UserExists check before either of them registers.
C1_Unique ==
    \A a, b \in dir : a # b => ~(name[a] = name[b] /\ role[a] = role[b])

\* two requests of the same identity both got as far as Register; one is in
\* the directory, the other was rejected
C1_Witness ==
    \E a, b \in Conns :
        /\ a # b
        /\ name[a] = name[b]
        /\ admit[a] = "Accepted"
        /\ a \in dir
        /\ admit[b] = "Rejected"

\* C2: a request refused by the duplicate check has its transport handle
\* closed, no Client record, no entry in the directory and no pump.
C2_RefusedIsClosed ==
    \A c \in Conns :
        pc[c] = "refused" =>
            /\ ~open[c]
            /\ role[c] = "none"
            /\ c \notin dir
            /\ rd[c] = "none"
            /\ wr[c] = "none"

C4_RejectedGetsNoPump ==
    \A c \in Conns :
        admit[c] = "Rejected" => rd[c] = "none" /\ wr[c] = "none"

\* C5: Unregister is sent at most once per record, only after its Register
\* and only after the Reader has returned; and once the Reader has returned
\* it is eventually sent.
C5_UnregisterOnce ==
    /\ [](\A c \in Conns :
            /\ regs[c] <= 1
            /\ unregs[c] <= regs[c]
            /\ unregs[c] = 1 => rd[c] = "exited")
    /\ \A c \in Conns : (rd[c] = "exited") ~> (unregs[c] = 1)

\* the read deadline ended the Reader and Unregister has been sent
C5_Witness ==
    \E c \in Conns :
        rdWhy[c] = "deadline" /\ regs[c] = 1 /\ unregs[c] = 1

\* C6 as claimed: an admitted record is out of the directory only when both
\* of its pumps have ended.
C6_RemovedAfterBothPumps ==
    \A c \in Conns :
        admit[c] = "Accepted" /\ c \notin dir =>
            rd[c] # "reading" /\ ~Running(c)

\* C6, amended: an admitted record is out of the directory only when its
\* Reader has returned (the Writer may still run).
C6_RemovedAfterReader ==
    \A c \in Conns :
        admit[c] = "Accepted" /\ c \notin dir =>
            rd[c] = "exited" /\ unregs[c] = 1

\* an admitted record has been removed while its Writer waits in the select
C6_Witness ==
    \E c \in Conns :
        admit[c] = "Accepted" /\ c \notin dir /\ wr[c] = "select"

\* C7: while the peer acknowledges every ping the read deadline is never
\* reached, so the deadline never ends the Reader of such a peer; and a
\* record is in the directory for no more than pongWait seconds after the
\* last pong (or after the Reader started).
C7_Liveness ==
    \A c \in Conns :
        /\ rd[c] = "reading" /\ acking[c] => rdLeft[c] > 0
        /\ rdWhy[c] = "deadline" => ~acking[c]
        /\ c \in dir /\ rd[c] # "none" => sinceAck[c] <= pongWait

\* the peer answered a ping and then stopped acknowledging; the deadline
\* ended the Reader pongWait seconds after the last pong, and the record has
\* been removed
C7_Witness ==
    \E c \in Conns :
        /\ acked[c]
        /\ ~acking[c]
        /\ rdWhy[c] = "deadline"
        /\ sinceAck[c] = pongWait
        /\ admit[c] = "Accepted"
        /\ c \notin dir

\* C8: the text messages written are a prefix of the messages enqueued.
C8_Fifo ==
    \A c \in Conns :
        /\ Len(written[c]) <= Len(enq[c])
        /\ written[c] = SubSeq(enq[c], 1, Len(written[c]))

\* a ping is being written between the first message and the second
C8_Witness ==
    \E c \in Conns :
        /\ written[c] = <<1>>
        /\ cur[c].kind = "ping"
        /\ send[c] = <<2>>

\* C9 as claimed: once Quit has fired the Writer starts no write.
C9_NoWriteAfterQuit ==
    [][\A c \in Conns :
        quit[c] /\ wr[c] = "select" => wr'[c] # "writing"]_vars

\* the select has nothing to take but the Quit case
OnlyQuit(c) ==
    /\ wr[c] = "select"
    /\ quit[c]
    /\ send[c] = <<>>
    /\ ~sendClosed[c]
    /\ ~tickReady[c]

\* C9, amended: a fired Quit is a ready case of the select, also with an
\* empty queue; a Writer that has nothing else to take ends without a write;
\* and after the Writer took the Quit case it writes nothing.
C9_QuitEndsWriter ==
    /\ [](\A c \in Conns :
            wr[c] = "select" /\ quit[c] => ENABLED WriterQuit(c))
    /\ [][\A c \in Conns :
            OnlyQuit(c) /\ wr'[c] # wr[c] =>
                wr'[c] = "exited" /\ wrWhy'[c] = "quit"]_vars
    /\ [][\A c \in Conns :
            wrWhy[c] = "quit" =>
                /\ wr'[c] = "exited"
                /\ nWriting'[c] = 0
                /\ written'[c] = written[c]]_vars

\* the Writer ended by Quit with a message left in the queue
C9_Witness ==
    \E c \in Conns :
        wr[c] = "exited" /\ wrWhy[c] = "quit" /\ send[c] # <<>>

\* C10: at most one thread is inside a read and at most one inside a write
\* of a handle; the reading thread is the Reader, the writing thread is the
\* Writer.
C10_SingleOwner ==
    \A c \in Conns :
        /\ nReading[c] <= 1
        /\ nWriting[c] <= 1
        /\ nReading[c] = 1 => rd[c] = "reading"
        /\ nWriting[c] = 1 => wr[c] = "writing"

\* the Reader reads, the Writer writes and an action handler runs
C10_Witness ==
    \E c \in Conns :
        nReading[c] = 1 /\ nWriting[c] = 1 /\ handlers[c] > 0

\* C11: when ReadMessage fails (read error, read deadline, a frame longer
\* than maxMessageSize) the Reader returns at once and reads no more, the
\* frame that failed is not handed to an action handler, the handle is
\* closed, and Unregister is sent and removes the record.
C11_ReadFailureEndsReader ==
    /\ [](\A c \in Conns :
            /\ rdWhy[c] # "none" =>
                /\ rd[c] = "exited"
                /\ ~open[c]
                /\ pc[c] \in {"unregister", "done"}
            /\ Len(dispatched[c]) = Len(arrived[c])
            /\ \A i \in 1 .. Len(arrived[c]) : ~Oversized(arrived[c][i]))
    /\ [][\A c \in Conns :
            rd[c] = "reading" /\ rdWhy'[c] # "none" =>
                /\ dispatched'[c] = dispatched[c]
                /\ handlers'[c] = handlers[c]
                /\ closes'[c] = closes[c] + 1]_vars
    /\ [][\A c \in Conns :
            rd[c] = "exited" =>
                /\ rd'[c] = "exited"
                /\ nReading'[c] = 0
                /\ arrived'[c] = arrived[c]
                /\ dispatched'[c] = dispatched[c]]_vars
    /\ \A c \in Conns :
            (rdWhy[c] # "none") ~> (unregs[c] = 1 /\ c \notin dir)

\* a frame was dispatched, the next frame was longer than the read limit:
\* the Reader has returned and the record has been removed
C11_Witness ==
    \E c \in Conns :
        /\ rdWhy[c] = "oversize"
        /\ Len(dispatched[c]) = 1
        /\ inbox[c] = <<>>
        /\ ~open[c]
        /\ unregs[c] = 1
        /\ c \notin dir

\* everything the program holds for connection c alone: the position of its
\* wsConnect, its record, its pumps, its handle, its queue and its timers
Local(c) ==
    <<pc[c], name[c], role[c], admit[c], regs[c], unregs[c],
      rd[c], rdWhy[c], nReading[c], handlers[c], inbox[c], arrived[c],
      dispatched[c],
      wr[c], wrWhy[c], cur[c], nWriting[c], written[c],
      open[c], closes[c],
      send[c], sendClosed[c], quit[c], enq[c],
      rdLeft[c], pingLeft[c], tickReady[c], pongDue[c], acking[c],
      sinceAck[c], acked[c]>>

\* which steps of its pumps and of its wsConnect connection c can take
CanStep(c) ==
    <<ENABLED Register(c), ENABLED SpawnWriter(c), ENABLED ReaderEnter(c),
      ENABLED PongHandler(c), ENABLED ReaderRecv(c), ENABLED ReaderFail(c),
      ENABLED Unregister(c), ENABLED WriterSend(c), ENABLED WriterClosed(c),
      ENABLED WriterPing(c), ENABLED WriterQuit(c), ENABLED WriteDone(c)>>

\* this step is a failure of connection d, or the removal that follows it:
\* the upgrade fails, the request is refused or rejected, a pump returns,
\* Unregister is sent
FailureOf(d) ==
    \/ pc[d] = "idle" /\ pc'[d] = "failed"
    \/ pc[d] = "check" /\ pc'[d] = "refused"
    \/ admit[d] = "none" /\ admit'[d] = "Rejected"
    \/ rd[d] = "reading" /\ rd'[d] = "exited"
    \/ Running(d) /\ wr'[d] = "exited"
    \/ unregs'[d] # unregs[d]

\* C12: a failure of one connection (failed upgrade, refusal, rejection,
\* read error, read deadline, write error) and the removal of its record
\* change nothing of any other connection: its pumps, its queue, its handle,
\* its timers and its place in the directory stay as they are, and every
\* step it could take before it can still take.
C12_FailureIsLocal ==
    [][\A c, d \in Conns :
        c # d /\ FailureOf(d) =>
            /\ Local(c)' = Local(c)
            /\ (c \in dir)' = (c \in dir)
            /\ CanStep(c)' = CanStep(c)]_vars

\* one connection ended by the read deadline and its record was removed;
\* the other, of the same identity and rejected by the directory, still has
\* both pumps running and its peer's pong handled
C12_Witness ==
    \E c, d \in Conns :
        /\ c # d
        /\ name[c] = name[d]
        /\ rdWhy[d] = "deadline"
        /\ wrWhy[d] = "error"
        /\ unregs[d] = 1
        /\ admit[c] = "Rejected"
        /\ rd[c] = "reading"
        /\ wr[c] = "select"
        /\ open[c]
        /\ acked[c]

\* C13: when reading the settings source or mapping it onto conf fails, Load
\* returns an error that is not nil together with the built-in defaults;
\* when the source is read, mapped and has its KnownBrothers section, Load
\* returns nil.
C13_LoadPropagatesErrors ==
    load.pc = "returned" =>
        /\ ~load.src.readable \/ ~load.src.mapOk =>
            load.err # "nil" /\ limits = DefaultLimits
        /\ load.src.readable /\ load.src.mapOk /\ load.src.brothers =>
            load.err = "nil"

\* C14: the Writer writes the close message only when c.Send is closed and
\* empty and every message enqueued has been written, in order; it writes
\* the close message once and returns when that write is through, whether
\* it succeeded or not; and a Writer whose c.Send has been closed returns in
\* the end.
C14_CloseAfterDrain ==
    /\ [](\A c \in Conns :
            /\ cur[c].kind = "close" =>
                /\ sendClosed[c]
                /\ send[c] = <<>>
                /\ written[c] = enq[c]
            /\ wrWhy[c] = "closed" =>
                /\ wr[c] = "exited"
                /\ sendClosed[c]
                /\ written[c] = enq[c])
    /\ [][\A c \in Conns :
            /\ cur'[c].kind = "close" /\ cur[c].kind # "close" =>
                wr[c] = "select" /\ wrWhy[c] = "none"
            /\ cur[c].kind = "close" /\ cur'[c].kind # "close" =>
                wr'[c] = "exited" /\ wrWhy'[c] = "closed"
            /\ wr[c] = "exited" => cur'[c].kind # "close"]_vars
    /\ \A c \in Conns :
            (sendClosed[c] /\ Running(c)) ~> (wr[c] = "exited")

\* c.Send was closed with messages in it; both have been written and the
\* close message is being written
C14_Witness ==
    \E c \in Conns :
        /\ cur[c].kind = "close"
        /\ Len(enq[c]) = MaxEnq
        /\ written[c] = enq[c]
        /\ open[c]

\* C15: a text or ping write that returns an error ends the Writer in the
\* same step: the handle is closed, the message of the failed write is
\* neither written nor put back, and the Writer that has returned starts no
\* write and receives no message.
C15_WriteErrorEndsWriter ==
    /\ [](\A c \in Conns :
            wrWhy[c] = "error" =>
                /\ wr[c] = "exited"
                /\ ~open[c]
                /\ nWriting[c] = 0
                /\ cur[c] = NoFrame)
    /\ [][\A c \in Conns :
            wrWhy[c] # "error" /\ wrWhy'[c] = "error" =>
                /\ cur[c].kind \in {"text", "ping"}
                /\ written'[c] = written[c]
                /\ send'[c] = send[c]]_vars
    /\ [][\A c \in Conns :
            wrWhy[c] = "error" =>
                /\ wr'[c] = "exited"
                /\ nWriting'[c] = 0
                /\ written'[c] = written[c]
                /\ Len(send'[c]) >= Len(send[c])]_vars

\* the write of the first message failed on the open handle: the Writer
\* has returned, the first message is not written and the second is left
\* in the queue
C15_Witness ==
    \E c \in Conns :
        /\ wrWhy[c] = "error"
        /\ rd[c] = "reading"
        /\ closes[c] = 1
        /\ written[c] = <<>>
        /\ enq[c] = <<1, 2>>
        /\ send[c] = <<2>>

\* the number of pumps of connection c that have returned
Returned(c) ==
    (IF rd[c] = "exited" THEN 1 ELSE 0) + (IF wr[c] = "exited" THEN 1 ELSE 0)

\* C16: whichever return the Writer takes (closed queue, failed message
\* write, failed ping write, Quit), it calls Close on the handle once and
\* stops its ticker; the Reader calls Close once when it returns; so Close
\* has been called once for every pump that has returned, never more, and
\* the handle is closed as soon as one of them has returned.
C16_ReleasedOncePerPump ==
    /\ [](\A c \in Conns :
            /\ closes[c] = Returned(c)
            /\ Returned(c) > 0 => ~open[c]
            /\ wr[c] = "exited" =>
                /\ wrWhy[c] \in {"closed", "error", "quit"}
                /\ pingLeft[c] = 0
                /\ ~tickReady[c])
    /\ [][\A c \in Conns :
            /\ Running(c) /\ wr'[c] = "exited" =>
                closes'[c] = closes[c] + 1
            /\ wr[c] = "exited" =>
                /\ wr'[c] = "exited"
                /\ pingLeft'[c] = 0
                /\ ~tickReady'[c]]_vars

\* the Writer returned by Quit while a tick was waiting in its ticker, then
\* the Reader returned: Close was called twice
C16_Witness ==
    \E c \in Conns :
        /\ wrWhy[c] = "quit"
        /\ rdWhy[c] = "closed"
        /\ closes[c] = 2
        /\ ~open[c]
        /\ pingLeft[c] = 0

\* a frame that ReadMessage can return is next on the open handle
FrameWaits(c) ==
    /\ rd[c] = "reading"
    /\ open[c]
    /\ inbox[c] # <<>>
    /\ ~Oversized(Head(inbox[c]))

\* C17: the messages handed to action handlers are the normalised frames
\* that ReadMessage returned, one for one and in the order of arrival; the
\* step that reads a frame starts its handler and leaves the Reader in its
\* loop; and the Reader can read the next frame whatever the number of
\* handlers that have not returned.
C17_DispatchOnceInOrder ==
    /\ [](\A c \in Conns :
            /\ dispatched[c] =
                   [i \in 1 .. Len(arrived[c]) |->
                       Normalize(arrived[c][i].text)]
            /\ handlers[c] <= Len(dispatched[c])
            /\ FrameWaits(c) => ENABLED ReaderRecv(c))
    /\ [][\A c \in Conns :
            arrived'[c] # arrived[c] =>
                /\ arrived'[c] = Append(arrived[c], Head(inbox[c]))
                /\ inbox'[c] = Tail(inbox[c])
                /\ Len(dispatched'[c]) = Len(dispatched[c]) + 1
                /\ handlers'[c] = handlers[c] + 1
                /\ rd'[c] = "reading"]_vars

\* the second frame has been read and dispatched while the handler of the
\* first has not returned
C17_Witness ==
    \E c \in Conns :
        /\ rd[c] = "reading"
        /\ handlers[c] = 2
        /\ dispatched[c] = <<<<"a">>, <<"a", "SP", "b">>>>

\* C18: the read deadline is moved only by the Reader's entry and by the
\* pong handler, both to pongWait from now; reading a message leaves it
\* where it is; so the deadline of a reading connection is pongWait after
\* the last pong (or the entry), however many messages arrive, and when it
\* is reached the clock does not go on before the Reader has returned.
C18_OnlyPongExtends ==
    /\ [](\A c \in Conns :
            rd[c] = "reading" =>
                /\ rdLeft[c] = pongWait - sinceAck[c]
                /\ rdLeft[c] >= 0
                /\ rdLeft[c] = 0 => ENABLED ReaderFail(c) /\ ~ENABLED Tick)
    /\ [][\A c \in Conns :
            /\ rdLeft'[c] > rdLeft[c] =>
                /\ rdLeft'[c] = pongWait
                /\ \/ rd[c] = "none" /\ rd'[c] = "reading"
                   \/ pongDue[c] /\ ~pongDue'[c]
            /\ arrived'[c] # arrived[c] => rdLeft'[c] = rdLeft[c]]_vars
    /\ [](\A c \in Conns :
            rdWhy[c] = "deadline" /\ c \in dir => sinceAck[c] = pongWait)

\* the peer sent two messages and never a pong: the deadline set at the
\* Reader's entry ended the Reader pongWait seconds later
C18_Witness ==
    \E c \in Conns :
        /\ rdWhy[c] = "deadline"
        /\ ~acked[c]
        /\ Len(arrived[c]) = 2
        /\ sinceAck[c] = pongWait

\* C19: pingPeriod is 9/10 of pongWait, 54 of 60 seconds.  With nothing on
\* Send, the tick of a running Writer is never more than pingPeriod away;
\* when it is due the Writer can write the ping and the clock does not go
\* on before it has; and whenever a ping is due or being written while the
\* Reader reads, the read deadline is still ahead, by pongWait - pingPeriod
\* at least.
C19_PingBeforeDeadline ==
    /\ [](pingPeriod * 10 = pongWait * 9 /\ pingPeriod = 54 /\ pongWait = 60)
    /\ [](\A c \in Conns :
            /\ Running(c) => pingLeft[c] > 0 /\ pingLeft[c] <= pingPeriod
            /\ tickReady[c] =>
                /\ ENABLED WriterPing(c)
                /\ ~ENABLED Tick
            /\ (tickReady[c] \/ cur[c].kind = "ping") /\ rd[c] = "reading" =>
                rdLeft[c] >= pongWait - pingPeriod)
    /\ [][\A c \in Conns :
            tickReady[c] /\ wr'[c] # wr[c] => cur'[c].kind = "ping"]_vars

\* the peer answered the first ping; the second ping is being written
\* pingPeriod seconds after the pong, before the deadline the pong set
C19_Witness ==
    \E c \in Conns :
        /\ acked[c]
        /\ cur[c].kind = "ping"
        /\ rd[c] = "reading"
        /\ open[c]
        /\ sinceAck[c] = pingPeriod
        /\ rdLeft[c] = pongWait - pingPeriod

\* C20: once the Reader has returned (and closed the handle), the Writer of
\* the same connection returns in the end, also when Quit never fires and
\* c.Send is never closed: no write on the closed handle succeeds, and the
\* next message or ping write ends the Writer.
C20_WriterEndsAfterReader ==
    /\ [](\A c \in Conns :
            rd[c] = "exited" /\ wr[c] = "writing" => WriteOutcomes(c) = {FALSE})
    /\ [][\A c \in Conns :
            rd[c] = "exited" /\ wr[c] = "writing" /\ wr'[c] # wr[c] =>
                wr'[c] = "exited"]_vars
    /\ \A c \in Conns :
            (rd[c] = "exited" /\ Running(c)) ~> (wr[c] = "exited")

\* the Reader returned by a read error; with no Quit, c.Send open and
\* nothing enqueued, the next ping failed on the closed handle and ended
\* the Writer
C20_Witness ==
    \E c \in Conns :
        /\ rdWhy[c] = "error"
        /\ wrWhy[c] = "error"
        /\ closes[c] = 2
        /\ ~quit[c]
        /\ ~sendClosed[c]
        /\ enq[c] = <<>>
====
